---- MODULE Spec2Model ----
\* TomatoClock (M5Cardputer): the Pomodoro timer of src/TomatoClock.ino.
\* The model follows loop() statement by statement: the splash check, the
\* key event with one step per character of keys.word, and the evaluation
\* of the running or paused countdown.
EXTENDS Integers, Sequences, FiniteSets, TLC

VARIABLES
    state,              \* TimerState: "STOPPED", "RUNNING", "PAUSED"
    startTime,          \* unsigned long, milliseconds
    pausedTime,         \* unsigned long, milliseconds
    focusDuration,      \* int, seconds
    breakDuration,      \* int, seconds
    onBreak,            \* bool
    sessionsCompleted,  \* int
    autoStartNext,      \* bool
    showHelp,           \* bool
    showSplash,         \* bool
    splashStartTime,    \* unsigned long, milliseconds
    statusMessage,      \* String
    clock,              \* the value millis() returns
    canvas,             \* what the last draw call pushed to the display
    pc,                 \* position in loop(): "loop", "input", "keys", "tick"
    word,               \* keys.word of this iteration's key event
    idx,                \* position of the for loop in word
    recognized,         \* local flag of the key event
    alerts,             \* number of calls of playAlert so far
    last                \* the step taken last and the TimerState it started in

timer == <<state, startTime, pausedTime, focusDuration, breakDuration, onBreak,
           sessionsCompleted, autoStartNext, statusMessage, alerts>>
vars == <<state, startTime, pausedTime, focusDuration, breakDuration, onBreak,
          sessionsCompleted, autoStartNext, showHelp, showSplash,
          splashStartTime, statusMessage, clock, canvas, pc, word, idx,
          recognized, alerts, last>>

-----------------------------------------------------------------------------
\* unsigned long is 32 bits wide on the ESP32-S3.  A value v is held as the
\* pair <<v \div 2^16, v % 2^16>> so that every intermediate result stays in
\* the range of the model checker's integers; the arithmetic is modulo 2^32.

Half == 65536

U32(n) == <<n \div Half, n % Half>>

U32Add(a, b) ==
    LET lo == a[2] + b[2]
        hi == a[1] + b[1] + (lo \div Half)
    IN  <<hi % Half, lo % Half>>

U32Sub(a, b) ==
    LET lo == a[2] - b[2]
        borrow == IF lo < 0 THEN 1 ELSE 0
    IN  <<(a[1] - b[1] - borrow + Half) % Half, (lo + Half) % Half>>

\* a / 1000 for an unsigned long a; the quotient fits an int.
MsPerSecond == 1000
U32Seconds(a) ==
    a[1] * (Half \div MsPerSecond)
      + ((a[1] * (Half % MsPerSecond) + a[2]) \div MsPerSecond)

U32Less(a, b) == a[1] < b[1] \/ (a[1] = b[1] /\ a[2] < b[2])

-----------------------------------------------------------------------------
\* Bounds of the model.

MaxClock == 66000          \* loop() iterations begin while millis() <= MaxClock
MaxDuration == 150         \* '+' is explored while the duration stays <= MaxDuration
QuietFrom == 45000         \* SpecUnattended: no key event from this clock reading on
LongIdleLead == 6000       \* LongIdle ends this long before millis() rolls over

\* Time between two readings of millis() at the top of loop() once the
\* splash is gone.
Deltas == {6000, 12000, 29500}

\* The characters of a key event, one per branch of the for loop ("h" stands
\* for any other key); upper and lower case take the same branch.
Keys == {"s", "p", "r", "a", "+", "-", "h"}
\* keys.word holds every key that is down: one key, or two keys at once.
KeyWords == {<<k>> : k \in Keys}
              \cup {<<"p", "s">>, <<"s", "p">>, <<"+", "s">>}

-----------------------------------------------------------------------------
\* Program constants.

DefaultFocus == 30         \* 0.5 * 60
DefaultBreak == 12         \* 0.2 * 60
SplashTimeout == 3000
LoopDelay == 100
Step == 60
Floor == 60
AlertBeeps == 3
AlertDelay == 1000
borderThickness == 6
screenWidth == 240
screenHeight == 135

-----------------------------------------------------------------------------
\* drawUI: the snake progress bar.

Min(a, b) == IF a < b THEN a ELSE b

\* Conversion of an exact quotient n/d (d > 0) to int: towards zero.
Trunc(n, d) == IF n >= 0 THEN n \div d ELSE -((-n) \div d)

totalPerimeter == 2 * (screenWidth + screenHeight) - 4 * borderThickness

\* int filledLength = progress * totalPerimeter, with
\* float progress = 1.0 - (float)remaining / duration.  The exact value is
\* (duration - remaining) * totalPerimeter / duration.  progress is 0.0 or
\* 1.0 exactly when remaining is duration or 0.  Otherwise the rounding of
\* the single-precision operations moves the product by far less than
\* 1/duration, so the truncation differs from that of the exact value only
\* where the exact value is an integer, and there by one towards zero at most.
FilledLengths(remaining, duration) ==
    LET n == (duration - remaining) * totalPerimeter
        q == Trunc(n, duration)
    IN  IF n % duration # 0 \/ remaining = 0 \/ remaining = duration
        THEN {q}
        ELSE IF q > 0 THEN {q, q - 1} ELSE {q, q + 1}

\* The four fillRect lengths <<top, right, bottom, left>> for a filledLength.
BorderFill(filledLength) ==
    LET top    == IF filledLength > 0
                  THEN Min(filledLength, screenWidth - borderThickness) ELSE 0
        f1     == filledLength - top
        right  == IF f1 > 0
                  THEN Min(f1, screenHeight - borderThickness) ELSE 0
        f2     == f1 - right
        bottom == IF f2 > 0
                  THEN Min(f2, screenWidth - borderThickness) ELSE 0
        f3     == f2 - bottom
        left   == IF f3 > 0
                  THEN Min(f3, screenHeight - 2 * borderThickness) ELSE 0
    IN  <<top, right, bottom, left>>

\* The frames drawUI(remaining) can push when the globals hold ob, fd, bd.
drawUI(remaining, ob, fd, bd) ==
    { [screen |-> "ui", remaining |-> remaining, filled |-> f,
       segments |-> BorderFill(f)]
      : f \in FilledLengths(remaining, IF ob THEN bd ELSE fd) }

drawSplash == [screen |-> "splash", remaining |-> 0, filled |-> 0,
               segments |-> <<0, 0, 0, 0>>]

drawHelp == [screen |-> "help", remaining |-> 0, filled |-> 0,
             segments |-> <<0, 0, 0, 0>>]

-----------------------------------------------------------------------------
\* Values the code computes from the globals.

CurrentDuration == IF onBreak THEN breakDuration ELSE focusDuration

\* int elapsed = (millis() - startTime) / 1000
Elapsed == U32Seconds(U32Sub(clock, startTime))

\* int remaining = (onBreak ? breakDuration : focusDuration) - elapsed
RunningRemaining == CurrentDuration - Elapsed

\* (onBreak ? breakDuration : focusDuration) - (pausedTime / 1000)
PausedRemaining == CurrentDuration - U32Seconds(pausedTime)

-----------------------------------------------------------------------------
Init ==
    /\ state = "STOPPED"
    /\ startTime = U32(0)
    /\ pausedTime = U32(0)
    /\ focusDuration = DefaultFocus
    /\ breakDuration = DefaultBreak
    /\ onBreak = FALSE
    /\ sessionsCompleted = 0
    /\ autoStartNext = FALSE
    /\ showHelp = FALSE
    /\ showSplash = TRUE
    /\ splashStartTime = U32(0)
    /\ statusMessage = "[S]tart Focus"
    /\ clock = U32(0)
    /\ canvas = drawSplash
    /\ pc = "loop"
    /\ word = <<>>
    /\ idx = 1
    /\ recognized = FALSE
    /\ alerts = 0
    /\ last = [op |-> "setup", from |-> "STOPPED"]

-----------------------------------------------------------------------------
\* The timer functions.  now is the value millis() returns inside the call.

locals == <<word, idx, recognized>>

\* resetTimer without onBreak = false.
resetTimer_keepsPhase(now) ==
    /\ state' = "STOPPED"
    /\ startTime' = now
    /\ statusMessage' = "[S]tart Focus"
    /\ canvas' \in drawUI(focusDuration, onBreak, focusDuration, breakDuration)
    /\ UNCHANGED <<pausedTime, focusDuration, breakDuration, onBreak,
                   sessionsCompleted, autoStartNext>>

resetTimer(now) ==
    /\ state' = "STOPPED"
    /\ onBreak' = FALSE
    /\ startTime' = now
    /\ statusMessage' = "[S]tart Focus"
    /\ canvas' \in drawUI(focusDuration, FALSE, focusDuration, breakDuration)
    /\ UNCHANGED <<pausedTime, focusDuration, breakDuration,
                   sessionsCompleted, autoStartNext>>

\* startTimer without the resume branch: the start instant is always now.
startTimer_fromNow(now) ==
    /\ IF state = "STOPPED" \/ state = "PAUSED"
       THEN /\ startTime' = now
            /\ state' = "RUNNING"
            /\ statusMessage' = IF onBreak THEN "Relax Mode" ELSE "Focus Mode"
       ELSE UNCHANGED <<startTime, state, statusMessage>>
    /\ UNCHANGED <<pausedTime, focusDuration, breakDuration, onBreak,
                   sessionsCompleted, autoStartNext, canvas>>

\* startTimer beginning a Focus whatever the phase was.
startTimer_asFocus(now) ==
    /\ IF state = "STOPPED" \/ state = "PAUSED"
       THEN /\ startTime' = IF state = "PAUSED" THEN U32Sub(now, pausedTime)
                            ELSE now
            /\ state' = "RUNNING"
            /\ statusMessage' = "Focus Mode"
            /\ onBreak' = FALSE
       ELSE UNCHANGED <<startTime, state, statusMessage, onBreak>>
    /\ UNCHANGED <<pausedTime, focusDuration, breakDuration,
                   sessionsCompleted, autoStartNext, canvas>>

startTimer(now) ==
    /\ IF state = "STOPPED" \/ state = "PAUSED"
       THEN /\ startTime' = IF state = "PAUSED" THEN U32Sub(now, pausedTime)
                            ELSE now
            /\ state' = "RUNNING"
            /\ statusMessage' = IF onBreak THEN "Relax Mode" ELSE "Focus Mode"
       ELSE UNCHANGED <<startTime, state, statusMessage>>
    /\ UNCHANGED <<pausedTime, focusDuration, breakDuration, onBreak,
                   sessionsCompleted, autoStartNext, canvas>>

\* pauseTimer without its state test: the elapsed time is captured again.
pauseTimer_unguarded(now) ==
    /\ pausedTime' = U32Sub(now, startTime)
    /\ state' = "PAUSED"
    /\ statusMessage' = "Paused. [S]tart"
    /\ UNCHANGED <<startTime, focusDuration, breakDuration, onBreak,
                   sessionsCompleted, autoStartNext, canvas>>

pauseTimer(now) ==
    /\ IF state = "RUNNING"
       THEN /\ pausedTime' = U32Sub(now, startTime)
            /\ state' = "PAUSED"
            /\ statusMessage' = "Paused. [S]tart"
       ELSE UNCHANGED <<pausedTime, state, statusMessage>>
    /\ UNCHANGED <<startTime, focusDuration, breakDuration, onBreak,
                   sessionsCompleted, autoStartNext, canvas>>

\* playAlert blocks for AlertBeeps delays; the value millis() returns after it.
playAlert(now) == U32Add(now, U32(AlertBeeps * AlertDelay))

-----------------------------------------------------------------------------
\* loop(), lines 211-223: the top of an iteration.  d is the time that has
\* passed since the previous iteration read the clock: the delay(100) that
\* ends an iteration, a run of iterations that found nothing to do, a stall.

SplashOver(now) == U32Less(U32(SplashTimeout), U32Sub(now, splashStartTime))

\* The last reading of millis() LongIdle leaves before the rollover.
WrapEve == U32Sub(U32(0), U32(LongIdleLead))

\* Iterations begin up to MaxClock, and again from WrapEve up to MaxClock
\* past the rollover.
CanAdvance(d) ==
    LET now == U32Add(clock, U32(d))
    IN  ~U32Less(U32(MaxClock), now) \/ ~U32Less(now, WrapEve)

\* While the splash is shown an iteration is delay(100) and nothing else.
SplashWait ==
    /\ pc = "loop" /\ showSplash
    /\ clock' = U32Add(clock, U32(LoopDelay))
    /\ ~SplashOver(clock')
    /\ last' = [op |-> "SplashWait", from |-> state]
    /\ UNCHANGED <<timer, showHelp, showSplash, splashStartTime, canvas, pc,
                   locals>>

SplashEnd ==
    /\ pc = "loop" /\ showSplash
    /\ clock' = U32Add(clock, U32(LoopDelay))
    /\ SplashOver(clock')
    /\ showSplash' = FALSE
    /\ resetTimer(clock')
    /\ pc' = "input"
    /\ last' = [op |-> "SplashEnd", from |-> state]
    /\ UNCHANGED <<showHelp, splashStartTime, locals, alerts>>

LoopStart(d) ==
    /\ pc = "loop" /\ ~showSplash /\ CanAdvance(d)
    /\ clock' = U32Add(clock, U32(d))
    /\ pc' = "input"
    /\ last' = [op |-> "LoopStart", from |-> state]
    /\ UNCHANGED <<timer, showHelp, showSplash, splashStartTime, canvas,
                   locals>>

\* The device left alone from the end of the splash until shortly before
\* millis() rolls over (49.7 days): a run of iterations that find the timer
\* STOPPED and no key, none of which changes anything but the clock.
Untouched ==
    /\ state = "STOPPED" /\ ~onBreak /\ ~showHelp /\ ~autoStartNext
    /\ focusDuration = DefaultFocus /\ breakDuration = DefaultBreak
    /\ startTime = clock
    /\ U32Sub(clock, splashStartTime) = U32(SplashTimeout + LoopDelay)

LongIdle ==
    /\ pc = "loop" /\ ~showSplash /\ Untouched
    /\ clock' = WrapEve
    /\ pc' = "input"
    /\ last' = [op |-> "LongIdle", from |-> state]
    /\ UNCHANGED <<timer, showHelp, showSplash, splashStartTime, canvas,
                   locals>>

-----------------------------------------------------------------------------
\* loop(), lines 225-265: the key event.

NoKeyEvent ==
    /\ pc = "input"
    /\ pc' = "tick"
    /\ last' = [op |-> "NoKeyEvent", from |-> state]
    /\ UNCHANGED <<timer, showHelp, showSplash, splashStartTime, clock,
                   canvas, locals>>

\* Any key while the help is shown: the help is dismissed and loop() returns.
DismissHelp ==
    /\ pc = "input" /\ showHelp
    /\ showHelp' = FALSE
    /\ canvas' \in drawUI(CurrentDuration, onBreak, focusDuration, breakDuration)
    /\ pc' = "loop"
    /\ last' = [op |-> "DismissHelp", from |-> state]
    /\ UNCHANGED <<timer, showSplash, splashStartTime, clock, locals>>

KeyEvent(w) ==
    /\ pc = "input" /\ ~showHelp
    /\ word' = w
    /\ idx' = 1
    /\ recognized' = FALSE
    /\ pc' = "keys"
    /\ last' = [op |-> "KeyEvent", from |-> state]
    /\ UNCHANGED <<timer, showHelp, showSplash, splashStartTime, clock, canvas>>

AtKey(c) == pc = "keys" /\ idx <= Len(word) /\ word[idx] = c

Recognized(op) ==
    /\ idx' = idx + 1
    /\ recognized' = TRUE
    /\ last' = [op |-> op, from |-> state]
    /\ UNCHANGED <<showHelp, showSplash, splashStartTime, clock, pc, word,
                   alerts>>

KeyStart ==
    /\ AtKey("s")
    /\ startTimer(clock)
    /\ Recognized("startTimer")

\* The 'p' branch noting the key but leaving pauseTimer for after the tick.
KeyPause_afterTick ==
    /\ AtKey("p")
    /\ UNCHANGED <<state, startTime, pausedTime, focusDuration, breakDuration,
                   onBreak, sessionsCompleted, autoStartNext, statusMessage,
                   canvas>>
    /\ Recognized("pauseTimer")

KeyPause ==
    /\ AtKey("p")
    /\ pauseTimer(clock)
    /\ Recognized("pauseTimer")

KeyReset ==
    /\ AtKey("r")
    /\ resetTimer(clock)
    /\ Recognized("resetTimer")

\* The 'a' branch restarting the countdown as well.
KeyAutoStart_restarts ==
    /\ AtKey("a")
    /\ autoStartNext' = ~autoStartNext
    /\ startTime' = clock
    /\ statusMessage' = IF autoStartNext' THEN "Auto-start: ON"
                        ELSE "Auto-start: OFF"
    /\ canvas' \in drawUI(CurrentDuration, onBreak, focusDuration, breakDuration)
    /\ UNCHANGED <<state, pausedTime, focusDuration, breakDuration,
                   onBreak, sessionsCompleted>>
    /\ Recognized("toggleAutoStart")

KeyAutoStart ==
    /\ AtKey("a")
    /\ autoStartNext' = ~autoStartNext
    /\ statusMessage' = IF autoStartNext' THEN "Auto-start: ON"
                        ELSE "Auto-start: OFF"
    /\ canvas' \in drawUI(CurrentDuration, onBreak, focusDuration, breakDuration)
    /\ UNCHANGED <<state, startTime, pausedTime, focusDuration, breakDuration,
                   onBreak, sessionsCompleted>>
    /\ Recognized("toggleAutoStart")

\* The '+' branch with the test of onBreak inverted.
KeyIncrease_otherPhase ==
    /\ AtKey("+") /\ state = "STOPPED"
    /\ CurrentDuration + Step <= MaxDuration
    /\ IF onBreak
       THEN focusDuration' = focusDuration + Step /\ UNCHANGED breakDuration
       ELSE breakDuration' = breakDuration + Step /\ UNCHANGED focusDuration
    /\ canvas' \in drawUI(IF onBreak THEN breakDuration' ELSE focusDuration',
                          onBreak, focusDuration', breakDuration')
    /\ UNCHANGED <<state, startTime, pausedTime, onBreak, sessionsCompleted,
                   autoStartNext, statusMessage>>
    /\ Recognized("increase")

KeyIncrease ==
    /\ AtKey("+") /\ state = "STOPPED"
    /\ CurrentDuration + Step <= MaxDuration
    /\ IF ~onBreak
       THEN focusDuration' = focusDuration + Step /\ UNCHANGED breakDuration
       ELSE breakDuration' = breakDuration + Step /\ UNCHANGED focusDuration
    /\ canvas' \in drawUI(IF onBreak THEN breakDuration' ELSE focusDuration',
                          onBreak, focusDuration', breakDuration')
    /\ UNCHANGED <<state, startTime, pausedTime, onBreak, sessionsCompleted,
                   autoStartNext, statusMessage>>
    /\ Recognized("increase")

KeyDecrease ==
    /\ AtKey("-") /\ state = "STOPPED"
    /\ IF ~onBreak /\ focusDuration > Floor
       THEN focusDuration' = focusDuration - Step /\ UNCHANGED breakDuration
       ELSE IF onBreak /\ breakDuration > Floor
       THEN breakDuration' = breakDuration - Step /\ UNCHANGED focusDuration
       ELSE UNCHANGED <<focusDuration, breakDuration>>
    /\ canvas' \in drawUI(IF onBreak THEN breakDuration' ELSE focusDuration',
                          onBreak, focusDuration', breakDuration')
    /\ UNCHANGED <<state, startTime, pausedTime, onBreak, sessionsCompleted,
                   autoStartNext, statusMessage>>
    /\ Recognized("decrease")

\* A character no branch of the for loop takes: any other key, and '+' or
\* '-' while the timer is not STOPPED.
KeyUnmatched ==
    /\ pc = "keys" /\ idx <= Len(word)
    /\ \/ word[idx] = "h"
       \/ word[idx] \in {"+", "-"} /\ state # "STOPPED"
    /\ idx' = idx + 1
    /\ last' = [op |-> "unmatched", from |-> state]
    /\ UNCHANGED <<timer, showHelp, showSplash, splashStartTime, clock,
                   canvas, pc, word, recognized>>

\* Lines 261-264, after the for loop.
EndKeys ==
    /\ pc = "keys" /\ idx > Len(word)
    /\ IF ~recognized
       THEN showHelp' = TRUE /\ canvas' = drawHelp
       ELSE UNCHANGED <<showHelp, canvas>>
    /\ pc' = "tick"
    /\ last' = [op |-> "EndKeys", from |-> state]
    /\ UNCHANGED <<timer, showSplash, splashStartTime, clock, locals>>

-----------------------------------------------------------------------------
\* loop(), lines 267-291: the evaluation of the countdown.  The iteration
\* ends here and the key event goes out of scope.

EndIteration ==
    /\ pc' = "loop"
    /\ word' = <<>> /\ idx' = 1 /\ recognized' = FALSE

\* if (remaining <= 0) with < in place of <=.
PhaseOver_strict(remaining) == remaining < 0

\* Line 271.
PhaseOver(remaining) == remaining <= 0

TickStopped ==
    /\ pc = "tick" /\ state = "STOPPED"
    /\ EndIteration
    /\ last' = [op |-> "TickStopped", from |-> state]
    /\ UNCHANGED <<timer, showHelp, showSplash, splashStartTime, clock,
                   canvas>>

\* The PAUSED branch drawing the time left by the clock, not by pausedTime.
TickPaused_byClock ==
    /\ pc = "tick" /\ state = "PAUSED"
    /\ canvas' \in drawUI(RunningRemaining, onBreak, focusDuration,
                          breakDuration)
    /\ EndIteration
    /\ last' = [op |-> "TickPaused", from |-> state]
    /\ UNCHANGED <<timer, showHelp, showSplash, splashStartTime, clock>>

TickPaused ==
    /\ pc = "tick" /\ state = "PAUSED"
    /\ canvas' \in drawUI(PausedRemaining, onBreak, focusDuration, breakDuration)
    /\ EndIteration
    /\ last' = [op |-> "TickPaused", from |-> state]
    /\ UNCHANGED <<timer, showHelp, showSplash, splashStartTime, clock>>

\* The RUNNING branch with startTime = millis() on every tick.
TickRunning_restarts ==
    /\ pc = "tick" /\ state = "RUNNING"
    /\ ~PhaseOver(RunningRemaining)
    /\ startTime' = clock
    /\ canvas' \in drawUI(RunningRemaining, onBreak, focusDuration,
                          breakDuration)
    /\ EndIteration
    /\ last' = [op |-> "TickRunning", from |-> state]
    /\ UNCHANGED <<state, pausedTime, focusDuration, breakDuration, onBreak,
                   sessionsCompleted, autoStartNext, statusMessage, alerts,
                   showHelp, showSplash, splashStartTime, clock>>

TickRunning ==
    /\ pc = "tick" /\ state = "RUNNING"
    /\ ~PhaseOver(RunningRemaining)
    /\ canvas' \in drawUI(RunningRemaining, onBreak, focusDuration,
                          breakDuration)
    /\ EndIteration
    /\ last' = [op |-> "TickRunning", from |-> state]
    /\ UNCHANGED <<timer, showHelp, showSplash, splashStartTime, clock>>

\* Lines 276-283: what follows the flip of onBreak.  now is the value
\* millis() returns after playAlert.
\* The auto-start branch without startTime = millis().
AfterCompletion_staleStart(now) ==
    IF autoStartNext
    THEN /\ state' = "RUNNING"
         /\ statusMessage' = IF onBreak' THEN "Relax Mode" ELSE "Focus Mode"
         /\ UNCHANGED startTime
    ELSE /\ state' = "STOPPED"
         /\ statusMessage' = IF onBreak' THEN "[S]tart Relax"
                             ELSE "[S]tart Focus"
         /\ UNCHANGED startTime

AfterCompletion(now) ==
    IF autoStartNext
    THEN /\ startTime' = now
         /\ state' = "RUNNING"
         /\ statusMessage' = IF onBreak' THEN "Relax Mode" ELSE "Focus Mode"
    ELSE /\ state' = "STOPPED"
         /\ statusMessage' = IF onBreak' THEN "[S]tart Relax"
                             ELSE "[S]tart Focus"
         /\ UNCHANGED startTime

\* The completing tick with playAlert called at the end of Focus only.
TickComplete_breakSilent ==
    /\ pc = "tick" /\ state = "RUNNING"
    /\ PhaseOver(RunningRemaining)
    /\ alerts' = IF onBreak THEN alerts ELSE alerts + 1
    /\ clock' = IF onBreak THEN clock ELSE playAlert(clock)
    /\ onBreak' = ~onBreak
    /\ sessionsCompleted' = IF ~onBreak' THEN sessionsCompleted + 1
                            ELSE sessionsCompleted
    /\ AfterCompletion(clock')
    /\ canvas' \in drawUI(RunningRemaining, onBreak', focusDuration,
                          breakDuration)
    /\ EndIteration
    /\ last' = [op |-> "TickComplete", from |-> state]
    /\ UNCHANGED <<pausedTime, focusDuration, breakDuration, autoStartNext,
                   showHelp, showSplash, splashStartTime>>

TickComplete ==
    /\ pc = "tick" /\ state = "RUNNING"
    /\ PhaseOver(RunningRemaining)
    /\ alerts' = alerts + 1
    /\ clock' = playAlert(clock)
    /\ onBreak' = ~onBreak
    /\ sessionsCompleted' = IF ~onBreak' THEN sessionsCompleted + 1
                            ELSE sessionsCompleted
    /\ AfterCompletion(clock')
    /\ canvas' \in drawUI(RunningRemaining, onBreak', focusDuration,
                          breakDuration)
    /\ EndIteration
    /\ last' = [op |-> "TickComplete", from |-> state]
    /\ UNCHANGED <<pausedTime, focusDuration, breakDuration, autoStartNext,
                   showHelp, showSplash, splashStartTime>>

-----------------------------------------------------------------------------
Next ==
    \/ SplashWait
    \/ SplashEnd
    \/ \E d \in Deltas : LoopStart(d)
    \/ LongIdle
    \/ NoKeyEvent
    \/ DismissHelp
    \/ \E w \in KeyWords : KeyEvent(w)
    \/ KeyStart
    \/ KeyPause
    \/ KeyReset
    \/ KeyAutoStart
    \/ KeyIncrease
    \/ KeyDecrease
    \/ KeyUnmatched
    \/ EndKeys
    \/ TickStopped
    \/ TickPaused
    \/ TickRunning
    \/ TickComplete

Spec == Init /\ [][Next]_vars

-----------------------------------------------------------------------------
\* The border fill on its own: every filledLength from a little below 0 to a
\* little above totalPerimeter, and one step that computes its segments.

MaxOverfill == 8

FillInputs == (0 - MaxOverfill) .. (totalPerimeter + MaxOverfill)

FillInit ==
    /\ state = "STOPPED"
    /\ startTime = U32(0)
    /\ pausedTime = U32(0)
    /\ focusDuration = DefaultFocus
    /\ breakDuration = DefaultBreak
    /\ onBreak = FALSE
    /\ sessionsCompleted = 0
    /\ autoStartNext = FALSE
    /\ showHelp = FALSE
    /\ showSplash = FALSE
    /\ splashStartTime = U32(0)
    /\ statusMessage = "[S]tart Focus"
    /\ clock = U32(0)
    /\ canvas \in {[screen |-> "blank", remaining |-> 0, filled |-> f,
                    segments |-> <<0, 0, 0, 0>>] : f \in FillInputs}
    /\ pc = "fill"
    /\ word = <<>>
    /\ idx = 1
    /\ recognized = FALSE
    /\ alerts = 0
    /\ last = [op |-> "setup", from |-> "STOPPED"]

FillBorder ==
    /\ pc = "fill"
    /\ canvas' = [canvas EXCEPT !.screen = "ui",
                                !.segments = BorderFill(canvas.filled)]
    /\ pc' = "filled"
    /\ last' = [op |-> "drawUI", from |-> state]
    /\ UNCHANGED <<timer, showHelp, showSplash, splashStartTime, clock, locals>>

SpecFill == FillInit /\ [][FillBorder]_vars

-----------------------------------------------------------------------------
\* The timer left to itself: keys are pressed only before the clock reads
\* QuietFrom, and loop() goes on being called.

Quiet == ~U32Less(clock, U32(QuietFrom))

NextUnattended ==
    \/ SplashWait
    \/ SplashEnd
    \/ \E d \in Deltas : LoopStart(d)
    \/ NoKeyEvent
    \/ ~Quiet /\ DismissHelp
    \/ ~Quiet /\ \E w \in KeyWords : KeyEvent(w)
    \/ KeyStart
    \/ KeyPause
    \/ KeyReset
    \/ KeyAutoStart
    \/ KeyIncrease
    \/ KeyDecrease
    \/ KeyUnmatched
    \/ EndKeys
    \/ TickStopped
    \/ TickPaused
    \/ TickRunning
    \/ TickComplete

SpecUnattended ==
    Init /\ [][NextUnattended]_vars /\ WF_vars(NextUnattended)

-----------------------------------------------------------------------------
\* Properties.

\* The step about to be taken is the evaluation of a countdown that has run out.
Completing == pc = "tick" /\ state = "RUNNING" /\ RunningRemaining <= 0

\* The step about to be taken handles character c of the key event.
Command(c) == pc = "keys" /\ idx <= Len(word) /\ word[idx] = c

SegmentSum(g) == g[1] + g[2] + g[3] + g[4]

\* C1: a tick that completes a Focus phase (Focus -> Break) increases
\* sessionsCompleted by exactly 1, and a tick that completes a Break phase
\* (Break -> Focus) leaves sessionsCompleted unchanged.
C1_SessionPerFocus ==
    [][Completing =>
          /\ onBreak' = ~onBreak
          /\ sessionsCompleted' = IF ~onBreak THEN sessionsCompleted + 1
                                  ELSE sessionsCompleted]_vars

\* C2: after a tick that completes a phase the phase is flipped and, if
\* autoStartNext is set, the timer is RUNNING with no time elapsed, so that a
\* tick at the same clock reading computes the full duration of the new phase;
\* if it is not set, the timer is STOPPED.  A STOPPED timer leaves STOPPED
\* only by a start command.
C2_AutoStartDecides ==
    [][/\ Completing =>
            /\ onBreak' = ~onBreak
            /\ autoStartNext' = autoStartNext
            /\ IF autoStartNext
               THEN /\ state' = "RUNNING"
                    /\ Elapsed' = 0
                    /\ RunningRemaining' = CurrentDuration'
               ELSE state' = "STOPPED"
       /\ (state = "STOPPED" /\ state' # "STOPPED") => Command("s")]_vars

C2_Witness ==
    /\ last.op = "TickComplete"
    /\ autoStartNext /\ state = "RUNNING" /\ onBreak
    /\ RunningRemaining = breakDuration

\* C3: the remaining value captured by a pause is the one a tick would have
\* computed at that moment, it does not change while the timer stays PAUSED
\* whatever the clock does, and right after the resuming start the elapsed
\* time is the paused time again, so the remaining value is the same.
C3_PauseResumePreserves ==
    [][/\ (state = "RUNNING" /\ state' = "PAUSED") =>
            PausedRemaining' = RunningRemaining
       /\ (state = "PAUSED" /\ state' = "PAUSED") =>
            PausedRemaining' = PausedRemaining
       /\ (state = "PAUSED" /\ state' = "RUNNING") =>
            /\ U32Sub(clock', startTime') = pausedTime
            /\ RunningRemaining' = PausedRemaining]_vars

\* A start alone in its key event, so in a later iteration than the pause.
C3_Witness ==
    /\ last.op = "startTimer" /\ last.from = "PAUSED"
    /\ word = <<"s">>
    /\ state = "RUNNING"
    /\ pausedTime # U32(0)
    /\ RunningRemaining > 0 /\ RunningRemaining < CurrentDuration

\* C4: from a configuration whose durations are both at least 60 s no step
\* takes the focus or the break duration below 60 s.
C4_FloorKept ==
    [][(focusDuration >= Floor /\ breakDuration >= Floor) =>
          (focusDuration' >= Floor /\ breakDuration' >= Floor)]_vars

\* C5 as stated: the durations change only by '+' or '-' while STOPPED, such a
\* command changes the duration of the current phase by exactly 60 s and
\* leaves the other one alone, and '+' or '-' while RUNNING or PAUSED leaves
\* both unchanged.
C5_AdjustExactlyStep ==
    [][LET adjust  == Command("+") \/ Command("-")
           current == IF onBreak THEN breakDuration ELSE focusDuration
           other   == IF onBreak THEN focusDuration ELSE breakDuration
           delta   == IF Command("+") THEN Step ELSE 0 - Step
       IN  /\ (focusDuration' # focusDuration
                 \/ breakDuration' # breakDuration) =>
                    (adjust /\ state = "STOPPED")
           /\ (adjust /\ state = "STOPPED") =>
                 /\ current' = current + delta
                 /\ other' = other
                 /\ onBreak' = onBreak
           /\ (adjust /\ state # "STOPPED") =>
                 UNCHANGED <<focusDuration, breakDuration>>]_vars

\* C5 amended: as above, except that '-' leaves the duration of the current
\* phase unchanged when it is 60 s or less.
C5_AdjustStepOrFloor ==
    [][LET adjust  == Command("+") \/ Command("-")
           current == IF onBreak THEN breakDuration ELSE focusDuration
           other   == IF onBreak THEN focusDuration ELSE breakDuration
           delta   == IF Command("+") THEN Step
                      ELSE IF current > Floor THEN 0 - Step ELSE 0
       IN  /\ (focusDuration' # focusDuration
                 \/ breakDuration' # breakDuration) =>
                    (adjust /\ state = "STOPPED")
           /\ (adjust /\ state = "STOPPED") =>
                 /\ current' = current + delta
                 /\ other' = other
                 /\ onBreak' = onBreak
           /\ (adjust /\ state # "STOPPED") =>
                 UNCHANGED <<focusDuration, breakDuration>>]_vars

C5_Witness ==
    /\ last.op = "increase" /\ last.from = "STOPPED"
    /\ onBreak
    /\ breakDuration = DefaultBreak + Step
    /\ focusDuration = DefaultFocus

\* C6: a reset command leaves the timer STOPPED in the Focus phase and leaves
\* sessionsCompleted, autoStartNext and both durations unchanged; the phase of
\* a STOPPED timer changes by a reset only, and a start from STOPPED begins
\* with no time elapsed, at the full duration of the phase.
C6_ResetFrame ==
    [][/\ Command("r") =>
            /\ state' = "STOPPED"
            /\ onBreak' = FALSE
            /\ UNCHANGED <<sessionsCompleted, autoStartNext, focusDuration,
                           breakDuration>>
       /\ (state = "STOPPED" /\ onBreak' # onBreak) => Command("r")
       /\ (state = "STOPPED" /\ state' = "RUNNING") =>
            /\ Elapsed' = 0
            /\ RunningRemaining' = CurrentDuration']_vars

C6_Witness ==
    /\ last.op = "resetTimer" /\ last.from = "RUNNING"
    /\ state = "STOPPED" /\ ~onBreak
    /\ sessionsCompleted > 0 /\ autoStartNext

\* C7: a tick that completes a phase with autoStartNext off hands the display
\* the full duration of the new phase as the remaining value.
C7_StoppedShowsFullDuration ==
    [][(Completing /\ ~autoStartNext) =>
          /\ canvas'.screen = "ui"
          /\ canvas'.remaining = CurrentDuration']_vars

\* C8: a key event that consists of '+' or '-' only, handled while the timer
\* is RUNNING or PAUSED, changes nothing that later behaviour depends on:
\* neither the timer nor the help flag that decides what the next key does.
C8_RejectedAdjustSilent ==
    [][(/\ pc = "keys"
        /\ state # "STOPPED"
        /\ \A i \in 1..Len(word) : word[i] \in {"+", "-"}) =>
          UNCHANGED <<timer, showHelp>>]_vars

\* C9: for a filledLength in 0..totalPerimeter the four segment lengths are
\* non-negative and sum to min(filledLength, totalPerimeter).
C9_SegmentsConserveLength ==
    (pc = "filled" /\ canvas.filled \in 0..totalPerimeter) =>
        /\ \A i \in 1..4 : canvas.segments[i] >= 0
        /\ SegmentSum(canvas.segments) = Min(canvas.filled, totalPerimeter)

\* C10: a toggle-auto-start command flips autoStartNext and leaves the timer
\* state, the phase, the start instant, the paused time, both durations and
\* sessionsCompleted unchanged, and with them the remaining value a tick
\* computes.
C10_ToggleFrame ==
    [][Command("a") =>
          /\ autoStartNext' = ~autoStartNext
          /\ UNCHANGED <<state, onBreak, startTime, pausedTime, focusDuration,
                         breakDuration, sessionsCompleted>>
          /\ RunningRemaining' = RunningRemaining
          /\ PausedRemaining' = PausedRemaining]_vars

C10_Witness ==
    /\ last.op = "toggleAutoStart" /\ last.from = "RUNNING"
    /\ state = "RUNNING" /\ autoStartNext
    /\ RunningRemaining > 0 /\ RunningRemaining < CurrentDuration

\* C11: a start command while RUNNING leaves the state and the start instant
\* unchanged (the countdown is not restarted), and a pause command while
\* STOPPED or PAUSED leaves the state and the captured paused time unchanged;
\* a start command from STOPPED or PAUSED yields RUNNING and a pause command
\* from RUNNING yields PAUSED.
C11_InvalidStateNoOp ==
    [][/\ (Command("s") /\ state = "RUNNING") =>
              /\ UNCHANGED <<state, startTime>>
              /\ RunningRemaining' = RunningRemaining
       /\ (Command("s") /\ state # "RUNNING") => state' = "RUNNING"
       /\ (Command("p") /\ state # "RUNNING") =>
              UNCHANGED <<state, pausedTime>>
       /\ (Command("p") /\ state = "RUNNING") => state' = "PAUSED"]_vars

\* A pause command has just been handled by a timer that was already PAUSED,
\* at a clock reading later than the one the pause was captured at.
C11_Witness ==
    /\ last.op = "pauseTimer" /\ last.from = "PAUSED"
    /\ state = "PAUSED"
    /\ U32Less(pausedTime, U32Sub(clock, startTime))

\* C12: playAlert is called once in every tick that completes a phase and in
\* no other step, so the number of calls equals the number of phase flips made
\* by ticks; no command and no tick that does not complete a phase calls it.
C12_AlertPerCompletion ==
    [][/\ alerts' = alerts + (IF Completing THEN 1 ELSE 0)
       /\ (pc = "tick" /\ onBreak' # onBreak) <=> (alerts' = alerts + 1)
       /\ pc = "keys" => alerts' = alerts]_vars

\* Two phases have been completed, a Focus and a Break, each with its alert.
C12_Witness ==
    /\ last.op = "TickComplete" /\ alerts = 2
    /\ ~onBreak /\ sessionsCompleted = 1

\* C13: the commands of an iteration's key event are applied before the tick
\* of the same iteration, at the same clock reading.  When the last command
\* of the key event is a start, the tick finds the timer RUNNING and hands the
\* display the remaining time of the running countdown; when it is a pause
\* or a reset, the tick finds the timer not RUNNING and completes no phase
\* (no flip, no alert, no session counted), even if the time has run out.
C13_CommandsBeforeTick ==
    [][/\ Command("s") \/ Command("p") \/ Command("r") =>
              pc' = "keys" /\ clock' = clock
       /\ (pc = "keys" /\ idx > Len(word)) =>
              pc' = "tick" /\ UNCHANGED <<timer, clock, word>>
       /\ (pc = "tick" /\ word # <<>> /\ word[Len(word)] = "s") =>
              /\ state = "RUNNING"
              /\ canvas'.remaining = RunningRemaining
       /\ (pc = "tick" /\ word # <<>> /\ word[Len(word)] \in {"p", "r"}) =>
              /\ state # "RUNNING"
              /\ UNCHANGED <<state, onBreak, alerts, sessionsCompleted>>]_vars

\* The tick of the iteration in which a pause arrived after the Focus time had
\* run out: the pause was captured at this clock reading and nothing was
\* completed.
C13_Witness ==
    /\ last.op = "TickPaused" /\ state = "PAUSED"
    /\ pausedTime = U32Sub(clock, startTime)
    /\ PausedRemaining <= 0
    /\ ~onBreak /\ alerts = 0 /\ sessionsCompleted = 0

\* C14: a tick of a RUNNING timer completes the phase if and only if the whole
\* seconds elapsed since startTime are at least the duration of the current
\* phase (remaining 0 completes, remaining 1 does not).  A completing tick
\* flips onBreak once, however late it comes: it calls the alert once, counts
\* at most one session, and with auto-start the next countdown begins with
\* nothing elapsed.
C14_CompletesIffElapsed ==
    [][(pc = "tick" /\ state = "RUNNING") =>
          /\ (onBreak' # onBreak) <=> (Elapsed >= CurrentDuration)
          /\ (RunningRemaining = 0) => onBreak' = ~onBreak
          /\ (RunningRemaining = 1) => onBreak' = onBreak
          /\ (Elapsed >= CurrentDuration) =>
                /\ onBreak' = ~onBreak
                /\ alerts' = alerts + 1
                /\ sessionsCompleted' \in
                      {sessionsCompleted, sessionsCompleted + 1}
                /\ state' = "RUNNING" => Elapsed' = 0]_vars

\* A Focus completed by a tick that came later than a whole Focus and a whole
\* Break: one flip, one alert.
C14_Witness ==
    /\ last.op = "TickComplete" /\ onBreak /\ alerts = 1
    /\ canvas.screen = "ui"
    /\ canvas.remaining <= 0 - breakDuration

\* C15: a tick of a RUNNING timer evaluated with the clock reading below
\* startTime (after millis() has rolled over) treats elapsed as zero: it hands
\* the display the full duration of the phase and completes no phase.
C15_ElapsedClampedBelowStart ==
    [][(pc = "tick" /\ state = "RUNNING" /\ U32Less(clock, startTime)) =>
          /\ canvas'.remaining = CurrentDuration
          /\ onBreak' = onBreak
          /\ alerts' = alerts
          /\ state' = "RUNNING"]_vars

\* C16: a tick of a STOPPED or PAUSED timer changes no timer state however far
\* the clock has advanced: state, phase, sessionsCompleted, both durations,
\* autoStartNext, the start instant and the paused time stay as they are and
\* no alert is played.  A PAUSED tick hands the display the current duration
\* minus the whole seconds of pausedTime, and that value is the same for as
\* long as the timer stays PAUSED.
C16_IdleTickFrame ==
    [][/\ (pc = "tick" /\ state # "RUNNING") =>
              /\ UNCHANGED <<state, onBreak, sessionsCompleted, focusDuration,
                             breakDuration, autoStartNext, startTime,
                             pausedTime, alerts>>
              /\ state = "PAUSED" => canvas'.remaining = PausedRemaining
       /\ (state = "PAUSED" /\ state' = "PAUSED") =>
              PausedRemaining' = PausedRemaining]_vars

\* A PAUSED tick evaluated after the clock has passed the deadline of the
\* paused countdown: the display still gets the remaining time of the pause.
C16_Witness ==
    /\ last.op = "TickPaused" /\ state = "PAUSED"
    /\ canvas.remaining = PausedRemaining
    /\ PausedRemaining > 0
    /\ RunningRemaining <= 0
    /\ alerts = 0

\* C18: every remaining value handed to drawUI lies between 0 and the duration
\* of the phase that is current when it is drawn, so that the progress
\* 1 - remaining / duration is within [0, 1].
C18_RemainingWithinDuration ==
    [][(canvas' # canvas /\ canvas'.screen = "ui") =>
          /\ 0 <= canvas'.remaining
          /\ canvas'.remaining <= CurrentDuration']_vars

\* C19: onBreak changes only in a tick that completes a phase or in a reset;
\* sessionsCompleted changes only in a tick that completes a phase, by
\* exactly +1; start, pause, toggle-auto-start, increase and decrease commands
\* change neither.
C19_PhaseAndSessionsFrame ==
    [][/\ onBreak' # onBreak => Completing \/ Command("r")
       /\ sessionsCompleted' # sessionsCompleted =>
              Completing /\ sessionsCompleted' = sessionsCompleted + 1
       /\ (\E c \in {"s", "p", "a", "+", "-"} : Command(c)) =>
              UNCHANGED <<onBreak, sessionsCompleted>>]_vars

\* A start command has just begun a Break that a completed Focus left waiting.
C19_Witness ==
    /\ last.op = "startTimer" /\ last.from = "STOPPED"
    /\ state = "RUNNING" /\ onBreak
    /\ alerts = 1 /\ sessionsCompleted = 0

\* The shortest time between two iterations the model explores.
MinDelta == CHOOSE d \in Deltas : \A e \in Deltas : d <= e

\* The deadline of the running countdown lies early enough for an iteration
\* to begin at or after it within MaxClock.
Room ==
    ~U32Less(U32(MaxClock - MinDelta),
             U32Add(startTime, U32(CurrentDuration * MsPerSecond)))

====
